---- MODULE Spec2Model ----
\* Load balancer of notes-server (src/load-balancer): fleet of instances, health
\* prober, selection strategies and the per-request failover dispatcher.
EXTENDS Integers, Sequences, FiniteSets, TLC

\* ------------------------------------------------------------------ bounds
MaxFleet == 3        \* largest configured fleet (config.instances.len())
ConcFleet == 2       \* largest fleet of the concurrent specification
HealthFleet == 2     \* largest fleet of the prober specification
ConcDispatches == 2  \* dispatches served by the concurrent specification
SeqDispatches == 2   \* dispatches served one after another
RRDispatches == 9    \* successive dispatches of the rotation scenario
MaxConn == 3         \* largest con_count drawn for a direct strategy call
MaxSnapshots == 3    \* longest snapshot list drawn for a direct strategy call
RelayFleet == 2      \* largest fleet of the relay specification
RelayDispatches == 2 \* dispatches served by the relay specification
RestoreFleet == 1    \* largest fleet of the restoration specification
RestoreDispatches == 2 \* dispatches served by the restoration specification
LiveFleet == 1       \* largest fleet of the termination specification
ReadersFleet == 2    \* largest fleet of the readers specification
ReadersDispatches == 1 \* dispatches served by the readers specification

\* health_check_time_limit, in ticks of the clock (config.rs)
Limit == 1
\* u32::MAX, the initial least_connections of LeastConnections. TLC's integers end at
\* 2^31 - 1, which stands for it here: the largest value a con_count can hold
U32Max == 2147483647

Unset == 0 - 1       \* Option::None of an integer-valued Option

FleetIdx == 0..(MaxFleet - 1)

Strategies == {"round_robin", "least_connections", "random"}

\* main(): two routers, each with its handler (proxy_handler, grpc_proxy_handler). A
\* slot is the request a frontend is serving; one request per frontend is in flight.
Slots == {"REST", "GRPC"}

\* Outcomes of one forward attempt (try_forward_to_instance, try_forward_grpc_to_instance):
\*   ok         upstream answered with a status below 400 and its body was read
\*   c4xx       upstream answered 4xx and its body was read
\*   s5xx       upstream answered 5xx
\*   transport  reqwest send() failed            (Ok(Err(_)))
\*   timeout    tokio::time::timeout elapsed      (Err(_))
\*   client_timeout  the timeout of the reqwest client elapsed: send() fails (Ok(Err(_)))
\*   body_fail  upstream answered below 500 but response.bytes() failed
\*   build_fail reqwest::Client::builder().build() failed
Outcomes == {"ok", "c4xx", "s5xx", "transport", "timeout", "client_timeout", "body_fail",
             "build_fail"}
ProbeOutcomes == {"ok", "non2xx", "err"}

VARIABLES
    strategy,      \* cfg.strategy
    max_retries,   \* cfg.max_retries: Unset or a u32
    n,             \* number of configured instances
    up,            \* environment: what upstream i answers to a forward ("any": anything)
    inbound,       \* environment: the request a frontend receives
    con_count,     \* Instance.con_count
    is_alive,      \* Instance.is_alive
    last_healthy,  \* Instance.last_healthy: Unset, or ticks elapsed since that Instant,
                   \* saturating at Limit + 1 (all the code compares it with)
    idx_to_pick,   \* RoundRobin.idx_to_pick
    sweep,         \* health_check_all: Unset, or the index of the next instance to probe
                   \* (the fleet's write lock is held while sweep # Unset)
    req,           \* per request slot: the locals of forward_request and its history
    started,       \* number of dispatches started so far
    probe_hist,    \* history: per instance, the age of its run of failed probes
    probed,        \* history: how the most recent probe ended ("" before the first)
    lc_in,         \* input of a direct strategy call
    lc_out,        \* its result
    root_resp,     \* the response of the root handler to the GET / it is serving
    tally          \* history: per instance, the forwards of the requests that are gone

vars == <<strategy, max_retries, n, up, inbound, con_count, is_alive, last_healthy, idx_to_pick,
          sweep, req, started, probe_hist, probed, lc_in, lc_out, root_resp, tally>>

cfgVars == <<strategy, max_retries, n, up, inbound>>
lcVars == <<lc_in, lc_out>>

\* ------------------------------------------------------------------ helpers
Min(a, b) == IF a < b THEN a ELSE b

\* Vec::remove(pos) with a 0-based position
RemoveAt(s, pos) == [k \in 1..(Len(s) - 1) |-> IF k <= pos THEN s[k] ELSE s[k + 1]]

\* StatusCode::is_server_error
IsServerError(status) == status >= 500 /\ status <= 599

\* ------------------------------------------------------------------ strategies
\* Mutant: the cursor is never advanced
RoundRobinSelectStuck(cursor, len) ==
    [result |-> cursor, idx_to_pick |-> cursor]

\* Mutant: the cursor advances by two
RoundRobinSelectSkipping(cursor, len) ==
    [result |-> cursor, idx_to_pick |-> (cursor + 2) % len]

\* RoundRobin::select_instance: returns the cursor as it is, then advances it
\* modulo the length of the list it was given
RoundRobinSelect(cursor, len) ==
    [result |-> cursor, idx_to_pick |-> (cursor + 1) % len]

\* LeastConnections::select_instance: the loop over snapshots.iter().enumerate()
RECURSIVE LeastConnectionsLoop(_, _, _, _)
LeastConnectionsLoop(snapshots, k, least_connections, idx) ==
    IF k > Len(snapshots) THEN idx
    ELSE IF snapshots[k].is_alive /\ snapshots[k].con_count < least_connections
         THEN LeastConnectionsLoop(snapshots, k + 1, snapshots[k].con_count, k - 1)
         ELSE LeastConnectionsLoop(snapshots, k + 1, least_connections, idx)

\* Mutant: `<=` for `<`, the last minimum wins
RECURSIVE LeastConnectionsLoopLe(_, _, _, _)
LeastConnectionsLoopLe(snapshots, k, least_connections, idx) ==
    IF k > Len(snapshots) THEN idx
    ELSE IF snapshots[k].is_alive /\ snapshots[k].con_count <= least_connections
         THEN LeastConnectionsLoopLe(snapshots, k + 1, snapshots[k].con_count, k - 1)
         ELSE LeastConnectionsLoopLe(snapshots, k + 1, least_connections, idx)

LeastConnectionsLastMin(snapshots) == LeastConnectionsLoopLe(snapshots, 1, U32Max, 0)

LeastConnectionsSelect(snapshots) == LeastConnectionsLoop(snapshots, 1, U32Max, 0)

\* Random::select_instance: rng.random_range(0..snapshots.len())
RandomSelect(len) == 0..(len - 1)

\* The (index, next cursor) pairs select_instance can produce behind the strategy mutex
StrategySelect(strat, cursor, snapshots) ==
    CASE strat = "round_robin" ->
            {RoundRobinSelect(cursor, Len(snapshots))}
      [] strat = "least_connections" ->
            {[result |-> LeastConnectionsSelect(snapshots), idx_to_pick |-> cursor]}
      [] OTHER ->
            {[result |-> k, idx_to_pick |-> cursor] : k \in RandomSelect(Len(snapshots))}

\* ------------------------------------------------------------------ dispatcher
\* forward_request: the alive filter over instances.iter().enumerate()
RECURSIVE AliveFrom(_, _, _, _)
AliveFrom(i, size, alive, counts) ==
    IF i >= size THEN <<>>
    ELSE (IF alive[i]
          THEN <<[idx |-> i, con_count |-> counts[i], is_alive |-> alive[i]]>>
          ELSE <<>>) \o AliveFrom(i + 1, size, alive, counts)

AliveSnapshots(size, alive, counts) == AliveFrom(0, size, alive, counts)

\* Mutant: one retry too many
EffectiveRetriesOffByOne(cfg_retries, len) ==
    Min(IF cfg_retries = Unset THEN len ELSE cfg_retries + 1, len)

\* self.max_retries.unwrap_or(len).min(len)
EffectiveRetries(cfg_retries, len) ==
    Min(IF cfg_retries = Unset THEN len ELSE cfg_retries, len)

\* The snapshot list handed to the strategy: alive_snapshots.iter().map(|(_, s)| *s)
SnapshotsOf(alive_snapshots) ==
    [k \in 1..Len(alive_snapshots) |->
        [con_count |-> alive_snapshots[k].con_count, is_alive |-> alive_snapshots[k].is_alive]]

\* alive_snapshots[selected_idx_in_snapshot].0
ActualIdx(alive_snapshots, sel) == alive_snapshots[sel + 1].idx

\* Mutant: the position in the remaining list is taken for the fleet index
ForwardTargetByPosition(actual_idx, sel) == sel

\* The instance try_forward_to_instance is called for (its instance_idx argument)
ForwardTarget(actual_idx, sel) == actual_idx

\* Mutant: every status that is not a success is an error (`!status.is_success()`)
ClassifyNonSuccessAsError(outcome) ==
    CASE outcome = "ok"         -> [ok |-> TRUE,  status |-> 200]
      [] outcome = "c4xx"       -> [ok |-> FALSE, status |-> 404]
      [] outcome = "s5xx"       -> [ok |-> FALSE, status |-> 503]
      [] outcome = "transport"  -> [ok |-> FALSE, status |-> 502]
      [] outcome = "timeout"    -> [ok |-> FALSE, status |-> 504]
      [] outcome = "client_timeout" -> [ok |-> FALSE, status |-> 502]
      [] outcome = "body_fail"  -> [ok |-> FALSE, status |-> 500]
      [] outcome = "build_fail" -> [ok |-> FALSE, status |-> 500]

\* try_forward_to_instance: what an attempt's outcome becomes, as Result<Response, StatusCode>
Classify(outcome) ==
    CASE outcome = "ok"         -> [ok |-> TRUE,  status |-> 200]
      [] outcome = "c4xx"       -> [ok |-> TRUE,  status |-> 404]
      [] outcome = "s5xx"       -> [ok |-> FALSE, status |-> 503]
      [] outcome = "transport"  -> [ok |-> FALSE, status |-> 502]
      [] outcome = "timeout"    -> [ok |-> FALSE, status |-> 504]
      [] outcome = "client_timeout" -> [ok |-> FALSE, status |-> 502]
      [] outcome = "body_fail"  -> [ok |-> FALSE, status |-> 500]
      [] outcome = "build_fail" -> [ok |-> FALSE, status |-> 500]

\* Mutant: the increment is lost
FetchAddMissing(count) == count

\* AtomicU32::fetch_add(1) and fetch_sub(1): both wrap; U32Max is the value below 0
FetchAdd(count) == IF count = U32Max THEN 0 ELSE count + 1

FetchSub(count) == IF count = 0 THEN U32Max ELSE count - 1

\* InstanceConfig of instance i: base_url, rest_port, grpc_port (as they are formatted)
BaseUrl(i) == "http://10.0.0." \o ToString(i + 1)
RestPort == "8080"
GrpcPort == "50051"

\* Instance::get_rest_url, Instance::get_grpc_url: format!("{}:{}", base_url, port)
GetRestUrl(i) == (BaseUrl(i) \o ":") \o RestPort
GetGrpcUrl(i) == (BaseUrl(i) \o ":") \o GrpcPort

\* Mutant: the gRPC frontend forwards to the REST url
InstanceUrlRestOnly(r, i) == GetRestUrl(i)

\* The url of instance i a frontend forwards to: forward_request takes get_rest_url,
\* forward_grpc_request takes get_grpc_url
InstanceUrl(r, i) == IF r = "REST" THEN GetRestUrl(i) ELSE GetGrpcUrl(i)

\* Mutant: the url is the instance's url alone
OutboundRequestNoPath(request, instance_url) ==
    [method |-> request.method,
     url |-> instance_url,
     headers |-> request.headers,
     body |-> request.body]

\* try_forward_*: the request handed to reqwest: method.clone(), the url
\* format!("{}{}", instance_url, path_and_query), headers.clone(), body_bytes.to_vec()
OutboundRequest(request, instance_url) ==
    [method |-> request.method,
     url |-> instance_url \o request.path_and_query,
     headers |-> request.headers,
     body |-> request.body]

\* try_forward_to_instance: does this exit path run the fetch_sub?
Decrements(outcome) == outcome # "build_fail"

\* proxy_handler / grpc_proxy_handler: the response the client gets
ClientResponse(result) ==
    IF result.ok THEN [status |-> result.status, body |-> "upstream"]
    ELSE [status |-> result.status, body |-> "Service unavailable (no alive servers)"]

\* History: instance i has failed every probe of a run that spans more than Limit ticks
LongFailing(i) == probe_hist[i] = Limit + 2

IdleReq ==
    [pc |-> "idle", alive_snapshots |-> <<>>, max_retries |-> 0,
     tried_indices |-> {}, attempt |-> 0, selected |-> 0, actual_idx |-> 0,
     resp |-> [status |-> 0, body |-> ""],
     n_alive |-> 0, forwarded |-> <<>>, sent |-> <<>>,
     all_failing |-> FALSE]

\* forward_request returns (its locals are dropped, the history fields stay): the
\* handler turns the result into the client's response
Finish(r, rec, result) ==
    req' = [req EXCEPT ![r] =
              [IdleReq EXCEPT !.pc = "done",
                              !.resp = ClientResponse(result),
                              !.n_alive = rec.n_alive, !.forwarded = rec.forwarded,
                              !.sent = rec.sent,
                              !.all_failing = rec.all_failing]]

\* Inbound body cannot be read: to_bytes fails, 400 before anything else
BadRequest(r, quota) ==
    /\ req[r].pc \in {"idle", "done"}
    /\ started < quota
    /\ started' = started + 1
    /\ Finish(r, IdleReq, [ok |-> FALSE, status |-> 400])
    /\ UNCHANGED <<cfgVars, con_count, is_alive, last_healthy, idx_to_pick, sweep,
                   probe_hist, lcVars, root_resp, probed, tally>>

\* Mutant: the empty snapshot list is not answered at once, the loop is entered
StartIntoLoop(r, quota) ==
    /\ req[r].pc \in {"idle", "done"}
    /\ started < quota
    /\ sweep = Unset
    /\ started' = started + 1
    /\ LET alive == AliveSnapshots(n, is_alive, con_count)
            rec == [IdleReq EXCEPT !.alive_snapshots = alive,
                                   !.n_alive = Len(alive),
                                   !.all_failing = \A i \in 0..(n - 1) : LongFailing(i),
                                   !.max_retries = EffectiveRetries(max_retries, Len(alive))]
        IN req' = [req EXCEPT ![r] = [rec EXCEPT !.pc = "select"]]
    /\ UNCHANGED <<cfgVars, con_count, is_alive, last_healthy, idx_to_pick, sweep,
                   probe_hist, lcVars, root_resp, probed, tally>>

\* Mutant: the snapshot is read without the read lock, while a sweep may hold the fleet
StartUnlocked(r, quota) ==
    /\ req[r].pc \in {"idle", "done"}
    /\ started < quota
    /\ started' = started + 1
    /\ LET alive == AliveSnapshots(n, is_alive, con_count)
            rec == [IdleReq EXCEPT !.alive_snapshots = alive,
                                   !.n_alive = Len(alive),
                                   !.all_failing = \A i \in 0..(n - 1) : LongFailing(i),
                                   !.max_retries = EffectiveRetries(max_retries, Len(alive))]
        IN IF Len(alive) = 0
           THEN Finish(r, rec, [ok |-> FALSE, status |-> 503])
           ELSE req' = [req EXCEPT ![r] = [rec EXCEPT !.pc = "select"]]
    /\ UNCHANGED <<cfgVars, con_count, is_alive, last_healthy, idx_to_pick, sweep,
                   probe_hist, lcVars, root_resp, probed, tally>>

\* forward_request / forward_grpc_request up to the loop: snapshot behind the read lock
Start(r, quota) ==
    /\ req[r].pc \in {"idle", "done"}
    /\ started < quota
    /\ sweep = Unset
    /\ started' = started + 1
    /\ LET alive == AliveSnapshots(n, is_alive, con_count)
            rec == [IdleReq EXCEPT !.alive_snapshots = alive,
                                   !.n_alive = Len(alive),
                                   !.all_failing = \A i \in 0..(n - 1) : LongFailing(i),
                                   !.max_retries = EffectiveRetries(max_retries, Len(alive))]
        IN IF Len(alive) = 0
           THEN Finish(r, rec, [ok |-> FALSE, status |-> 503])
           ELSE req' = [req EXCEPT ![r] = [rec EXCEPT !.pc = "select"]]
    /\ UNCHANGED <<cfgVars, con_count, is_alive, last_healthy, idx_to_pick, sweep,
                   probe_hist, lcVars, root_resp, probed, tally>>

\* Mutant: the strategy mutex is held until the forward has ended
SelectBehindForward(r) ==
    /\ req[r].pc = "select"
    /\ \A q \in Slots \ {r} : req[q].pc \notin {"forward", "sending"}
    /\ LET rec == req[r] IN
       IF rec.attempt > rec.max_retries \/ Len(rec.alive_snapshots) = 0
       THEN /\ Finish(r, rec, [ok |-> FALSE, status |-> 503])
            /\ UNCHANGED idx_to_pick
       ELSE \E pick \in StrategySelect(strategy, idx_to_pick, SnapshotsOf(rec.alive_snapshots)) :
            /\ idx_to_pick' = pick.idx_to_pick
            /\ IF pick.result >= Len(rec.alive_snapshots)
               THEN Finish(r, rec, [ok |-> FALSE, status |-> 503])
               ELSE LET actual == ActualIdx(rec.alive_snapshots, pick.result) IN
                    IF actual \in rec.tried_indices
                    THEN req' = [req EXCEPT ![r] =
                            [rec EXCEPT !.alive_snapshots = RemoveAt(@, pick.result),
                                        !.attempt = @ + 1]]
                    ELSE req' = [req EXCEPT ![r] =
                            [rec EXCEPT !.tried_indices = @ \cup {actual},
                                        !.selected = pick.result,
                                        !.actual_idx = actual,
                                        !.pc = "forward"]]
    /\ UNCHANGED <<cfgVars, con_count, is_alive, last_healthy, sweep, started,
                   probe_hist, lcVars, root_resp, probed, tally>>

\* One pass of `for attempt in 0..=max_retries` up to the call of try_forward_*
Select(r) ==
    /\ req[r].pc = "select"
    /\ LET rec == req[r] IN
       IF rec.attempt > rec.max_retries \/ Len(rec.alive_snapshots) = 0
       THEN /\ Finish(r, rec, [ok |-> FALSE, status |-> 503])
            /\ UNCHANGED idx_to_pick
       ELSE \E pick \in StrategySelect(strategy, idx_to_pick, SnapshotsOf(rec.alive_snapshots)) :
            /\ idx_to_pick' = pick.idx_to_pick
            /\ IF pick.result >= Len(rec.alive_snapshots)
               THEN Finish(r, rec, [ok |-> FALSE, status |-> 503])
               ELSE LET actual == ActualIdx(rec.alive_snapshots, pick.result) IN
                    IF actual \in rec.tried_indices
                    THEN req' = [req EXCEPT ![r] =
                            [rec EXCEPT !.alive_snapshots = RemoveAt(@, pick.result),
                                        !.attempt = @ + 1]]
                    ELSE req' = [req EXCEPT ![r] =
                            [rec EXCEPT !.tried_indices = @ \cup {actual},
                                        !.selected = pick.result,
                                        !.actual_idx = actual,
                                        !.pc = "forward"]]
    /\ UNCHANGED <<cfgVars, con_count, is_alive, last_healthy, sweep, started,
                   probe_hist, lcVars, root_resp, probed, tally>>

\* Mutant: a retry leaves the failed instance among the candidates
AfterAttemptKeeping(r, rec, result) ==
    IF result.ok THEN Finish(r, rec, result)
    ELSE IF IsServerError(result.status)
         THEN IF rec.attempt < rec.max_retries
              THEN req' = [req EXCEPT ![r] = [rec EXCEPT !.attempt = @ + 1,
                                                         !.pc = "select"]]
              ELSE Finish(r, rec, result)
         ELSE Finish(r, rec, result)

\* Mutant: a retry reads the alive instances of the fleet anew
AfterAttemptRefreshing(r, rec, result) ==
    IF result.ok THEN Finish(r, rec, result)
    ELSE IF IsServerError(result.status)
         THEN IF rec.attempt < rec.max_retries
              THEN req' = [req EXCEPT ![r] =
                      [rec EXCEPT !.alive_snapshots = AliveSnapshots(n, is_alive, con_count),
                                  !.attempt = @ + 1,
                                  !.pc = "select"]]
              ELSE Finish(r, rec, result)
         ELSE Finish(r, rec, result)

\* Mutant: after a failed attempt with retries left the loop does not go on
AfterAttemptStalling(r, rec, result) ==
    IF result.ok THEN Finish(r, rec, result)
    ELSE IF IsServerError(result.status)
         THEN IF rec.attempt < rec.max_retries
              THEN req' = [req EXCEPT ![r] = [rec EXCEPT !.pc = "stalled"]]
              ELSE Finish(r, rec, result)
         ELSE Finish(r, rec, result)

\* forward_request: the match on the attempt's result
AfterAttempt(r, rec, result) ==
    IF result.ok THEN Finish(r, rec, result)
    ELSE IF IsServerError(result.status)
         THEN IF rec.attempt < rec.max_retries
              THEN req' = [req EXCEPT ![r] =
                      [rec EXCEPT !.alive_snapshots = RemoveAt(@, rec.selected),
                                  !.attempt = @ + 1,
                                  !.pc = "select"]]
              ELSE Finish(r, rec, result)
         ELSE Finish(r, rec, result)

\* The attempt outcomes the environment allows for upstream i
\* "built": the outbound client is built, the attempt then ends in any way.
\* "silent": the upstream accepts the request and never answers; the two timers of
\* the attempt (tokio::time::timeout and the client's own) have the same duration
OutcomesOf(i) ==
    CASE up[i] = "any" -> Outcomes
      [] up[i] = "built" -> Outcomes \ {"build_fail"}
      [] up[i] = "silent" -> {"timeout", "client_timeout"}
      [] OTHER -> {up[i]}

\* try_forward_*: fetch_add behind the read lock, then the client is built
ForwardBegin(r) ==
    /\ req[r].pc = "forward"
    /\ sweep = Unset
    /\ LET target == ForwardTarget(req[r].actual_idx, req[r].selected)
           rec == [req[r] EXCEPT !.forwarded = Append(@, target)]
       IN /\ con_count' = [con_count EXCEPT ![target] = FetchAdd(@)]
          /\ \/ /\ "build_fail" \in OutcomesOf(target)
                /\ AfterAttempt(r, rec,
                                Classify("build_fail"))
             \/ /\ OutcomesOf(target) # {"build_fail"}
                /\ req' = [req EXCEPT ![r] =
                        [rec EXCEPT !.pc = "sending",
                                    !.sent = Append(@,
                                        [instance |-> target,
                                         request |-> OutboundRequest(inbound[r],
                                                        InstanceUrl(r, target))])]]
    /\ UNCHANGED <<cfgVars, is_alive, last_healthy, idx_to_pick, sweep, started,
                   probe_hist, lcVars, root_resp, probed, tally>>

\* Mutant: a failed attempt marks its instance dead
CompleteDemoting(r) ==
    /\ req[r].pc = "sending"
    /\ sweep = Unset
    /\ LET target == req[r].forwarded[Len(req[r].forwarded)]
       IN \E outcome \in OutcomesOf(target) \ {"build_fail"} :
            /\ con_count' = [con_count EXCEPT
                                ![target] = IF Decrements(outcome) THEN FetchSub(@) ELSE @]
            /\ is_alive' = [is_alive EXCEPT
                                ![target] = IF Classify(outcome).ok THEN @ ELSE FALSE]
            /\ AfterAttempt(r, req[r],
                            Classify(outcome))
    /\ UNCHANGED <<cfgVars, last_healthy, idx_to_pick, sweep, started,
                   probe_hist, lcVars, root_resp, probed, tally>>

\* try_forward_*: the send ended; fetch_sub behind the read lock, classification,
\* and the rest of the loop pass in forward_request
Complete(r) ==
    /\ req[r].pc = "sending"
    /\ sweep = Unset
    /\ LET target == req[r].forwarded[Len(req[r].forwarded)]
       IN \E outcome \in OutcomesOf(target) \ {"build_fail"} :
            /\ con_count' = [con_count EXCEPT
                                ![target] = IF Decrements(outcome) THEN FetchSub(@) ELSE @]
            /\ AfterAttempt(r, req[r],
                            Classify(outcome))
    /\ UNCHANGED <<cfgVars, is_alive, last_healthy, idx_to_pick, sweep, started,
                   probe_hist, lcVars, root_resp, probed, tally>>

\* The handler's future is dropped at one of its awaits (the client disconnected):
\* the locals are dropped, nothing else runs
Cancel(r) ==
    /\ req[r].pc \in {"select", "forward", "sending"}
    /\ req' = [req EXCEPT ![r] = IdleReq]
    /\ UNCHANGED <<cfgVars, con_count, is_alive, last_healthy, idx_to_pick, sweep, started,
                   probe_hist, lcVars, root_resp, probed, tally>>

\* ------------------------------------------------------------------ health prober
\* Mutant: a failed probe demotes at once, whatever last_healthy is
HealthCheckNoHysteresis(alive, lh, outcome) ==
    CASE outcome = "ok" -> [is_alive |-> TRUE, last_healthy |-> 0]
      [] outcome = "non2xx" -> [is_alive |-> alive, last_healthy |-> lh]
      [] OTHER -> [is_alive |-> FALSE, last_healthy |-> lh]

\* Mutant: a 2xx probe records the instant and leaves is_alive as it is
HealthCheckNoRestore(alive, lh, outcome) ==
    CASE outcome = "ok" -> [is_alive |-> alive, last_healthy |-> 0]
      [] outcome = "non2xx" -> [is_alive |-> alive, last_healthy |-> lh]
      [] OTHER ->
            IF lh # Unset /\ lh > Limit
            THEN [is_alive |-> FALSE, last_healthy |-> lh]
            ELSE [is_alive |-> alive, last_healthy |-> lh]

\* Mutant: the age of last_healthy is not compared with the limit
HealthCheckDemotesEarly(alive, lh, outcome) ==
    CASE outcome = "ok" -> [is_alive |-> TRUE, last_healthy |-> 0]
      [] outcome = "non2xx" -> [is_alive |-> alive, last_healthy |-> lh]
      [] OTHER ->
            IF lh # Unset
            THEN [is_alive |-> FALSE, last_healthy |-> lh]
            ELSE [is_alive |-> alive, last_healthy |-> lh]

\* Mutant: a failed probe never demotes
HealthCheckNeverDemotes(alive, lh, outcome) ==
    CASE outcome = "ok" -> [is_alive |-> TRUE, last_healthy |-> 0]
      [] OTHER -> [is_alive |-> alive, last_healthy |-> lh]

\* Instance::health_check: the new (is_alive, last_healthy) after a probe
HealthCheck(alive, lh, outcome) ==
    CASE outcome = "ok" -> [is_alive |-> TRUE, last_healthy |-> 0]
      [] outcome = "non2xx" -> [is_alive |-> alive, last_healthy |-> lh]
      [] OTHER ->
            IF lh # Unset /\ lh > Limit
            THEN [is_alive |-> FALSE, last_healthy |-> lh]
            ELSE [is_alive |-> alive, last_healthy |-> lh]

\* History of the probes of one instance: Unset after a successful probe (or before
\* any probe), else the ticks since the first failed probe of the run, saturating at
\* Limit + 1, and Limit + 2 once a probe failed more than Limit ticks into the run
FailRun(run, outcome) ==
    IF outcome = "ok" THEN Unset
    ELSE IF run = Unset THEN 0
    ELSE IF run > Limit THEN Limit + 2
    ELSE run

\* health_check_all: interval.tick() fired and the write lock is taken
SweepBegin ==
    /\ sweep = Unset
    /\ sweep' = 0
    /\ UNCHANGED <<cfgVars, con_count, is_alive, last_healthy, idx_to_pick, req, started,
                   probe_hist, lcVars, root_resp, probed, tally>>

\* Mutant: the probes of a sweep run together and end in one step
ProbeAllAtOnce ==
    /\ sweep # Unset
    /\ \E outcome \in ProbeOutcomes :
        /\ is_alive' = [i \in FleetIdx |->
              IF i < n THEN HealthCheck(is_alive[i], last_healthy[i], outcome).is_alive
              ELSE is_alive[i]]
        /\ last_healthy' = [i \in FleetIdx |->
              IF i < n THEN HealthCheck(is_alive[i], last_healthy[i], outcome).last_healthy
              ELSE last_healthy[i]]
        /\ probe_hist' = [i \in FleetIdx |->
              IF i < n THEN FailRun(probe_hist[i], outcome) ELSE probe_hist[i]]
        /\ probed' = outcome
    /\ sweep' = Unset
    /\ UNCHANGED <<cfgVars, con_count, idx_to_pick, req, started, lcVars, root_resp, tally>>

\* health_check_all: instance.health_check().await on the next instance of the sweep;
\* the write lock is dropped after the last one
Probe ==
    /\ sweep # Unset
    /\ \E outcome \in ProbeOutcomes :
        LET after == HealthCheck(is_alive[sweep], last_healthy[sweep], outcome) IN
        /\ is_alive' = [is_alive EXCEPT ![sweep] = after.is_alive]
        /\ last_healthy' = [last_healthy EXCEPT ![sweep] = after.last_healthy]
        /\ probe_hist' = [probe_hist EXCEPT ![sweep] = FailRun(@, outcome)]
        /\ probed' = outcome
    /\ sweep' = IF sweep + 1 >= n THEN Unset ELSE sweep + 1
    /\ UNCHANGED <<cfgVars, con_count, idx_to_pick, req, started, lcVars, root_resp, tally>>

\* One tick of the clock (Instant::now() advances)
Tick ==
    /\ \E i \in 0..(n - 1) :
          \/ last_healthy[i] \in 0..Limit
          \/ probe_hist[i] \in 0..Limit
    /\ last_healthy' = [i \in FleetIdx |->
            IF last_healthy[i] \in 0..Limit THEN last_healthy[i] + 1 ELSE last_healthy[i]]
    /\ probe_hist' = [i \in FleetIdx |->
            IF probe_hist[i] \in 0..Limit THEN probe_hist[i] + 1 ELSE probe_hist[i]]
    /\ UNCHANGED <<cfgVars, con_count, is_alive, idx_to_pick, sweep, req, started, lcVars, root_resp, probed, tally>>

\* ------------------------------------------------------------------ root endpoint
\* No GET / is being served
NoResponse == [status |-> 0, health |-> "", alive_instances |-> 0, total_instances |-> 0]

\* get_health_status: instances.iter().filter(|i| i.is_alive()).count() from instance i on
RECURSIVE AliveCountFrom(_, _, _)
AliveCountFrom(i, size, alive) ==
    IF i >= size THEN 0
    ELSE (IF alive[i] THEN 1 ELSE 0) + AliveCountFrom(i + 1, size, alive)

\* Mutant: the fleet size is reported as the alive count
GetHealthStatusAllAlive(size, alive) ==
    [alive_count |-> size, total_count |-> size]

\* LoadBalancer::get_health_status: (alive_count, total_count)
GetHealthStatus(size, alive) ==
    [alive_count |-> AliveCountFrom(0, size, alive), total_count |-> size]

\* root: the status and the fields of the JSON body
RootResponse(alive_count, total_count) ==
    [status |-> IF alive_count > 0 THEN 200 ELSE 503,
     health |-> IF alive_count > 0 THEN "healthy" ELSE "unhealthy",
     alive_instances |-> alive_count,
     total_instances |-> total_count]

\* root: GET / on the REST listener, the fleet read behind the read lock
Root ==
    /\ root_resp = NoResponse
    /\ sweep = Unset
    /\ LET health == GetHealthStatus(n, is_alive)
       IN root_resp' = RootResponse(health.alive_count, health.total_count)
    /\ UNCHANGED <<cfgVars, con_count, is_alive, last_healthy, idx_to_pick, sweep, req,
                   started, probe_hist, lcVars, probed, tally>>

\* The response of root is written: the request is gone
RootDone ==
    /\ root_resp # NoResponse
    /\ root_resp' = NoResponse
    /\ UNCHANGED <<cfgVars, con_count, is_alive, last_healthy, idx_to_pick, sweep, req,
                   started, probe_hist, lcVars, probed, tally>>

\* ------------------------------------------------------------------ specifications
\* main(): Instance::new for every configured instance, LoadBalancer::new
PlainRequest == [method |-> "GET", path_and_query |-> "/", headers |-> <<>>, body |-> <<>>]

InitFleet ==
    /\ root_resp = NoResponse
    /\ tally = [i \in FleetIdx |-> 0]
    /\ probed = ""
    /\ con_count = [i \in FleetIdx |-> 0]
    /\ idx_to_pick = 0
    /\ sweep = Unset
    /\ req = [r \in Slots |-> IdleReq]
    /\ started = 0
    /\ lc_out = Unset

FreshInstances ==
    /\ is_alive = [i \in FleetIdx |-> TRUE]
    /\ last_healthy = [i \in FleetIdx |-> Unset]
    /\ probe_hist = [i \in FleetIdx |-> Unset]

\* The fleet as sweeps leave it before the first request: an instance is alive and was
\* just probed with success, or it passed a probe, then failed one more than Limit
\* ticks later and is dead
AfterSweeps ==
    /\ is_alive \in [FleetIdx -> BOOLEAN]
    /\ \A i \in FleetIdx : i >= n => is_alive[i]
    /\ last_healthy = [i \in FleetIdx |-> IF is_alive[i] THEN 0 ELSE Limit + 1]
    /\ probe_hist = [i \in FleetIdx |-> IF is_alive[i] THEN Unset ELSE 0]

\* cfg: the fleet size, the strategy and max_retries. EffectiveRetries caps max_retries
\* at the number of alive instances, so None and the values up to n are all the cases
RetriesFor(size) == {Unset} \cup 0..size

InitConfig(fleet) ==
    /\ strategy \in Strategies
    /\ n \in 1..fleet
    /\ max_retries \in RetriesFor(n)

\* ---- Spec: concurrent dispatches of the two frontends; any attempt may end in any way
Init ==
    /\ inbound = [r \in Slots |-> PlainRequest]
    /\ lc_in = <<>>
    /\ InitConfig(ConcFleet)
    /\ up = [i \in FleetIdx |-> "any"]
    /\ InitFleet
    /\ AfterSweeps

Next ==
    \/ \E r \in Slots : BadRequest(r, ConcDispatches)
    \/ \E r \in Slots : Start(r, ConcDispatches)
    \/ \E r \in Slots : Select(r)
    \/ \E r \in Slots : ForwardBegin(r)
    \/ \E r \in Slots : Complete(r)

Spec == Init /\ [][Next]_vars

\* ---- SpecSeq: dispatches issued one after another; every forward to an instance
\* ends in one fixed way

\* The handler has returned and its response is written: the request is gone
Forget(r, quota) ==
    /\ req[r].pc = "done"
    /\ started < quota
    /\ req' = [req EXCEPT ![r] = IdleReq]
    /\ UNCHANGED <<cfgVars, con_count, is_alive, last_healthy, idx_to_pick, sweep,
                   started, probe_hist, lcVars, root_resp, probed, tally>>

StartAlone(r, quota) ==
    /\ \A q \in Slots \ {r} : req[q].pc = "idle"
    /\ Start(r, quota)

Behaviours == {"ok", "c4xx", "s5xx", "transport", "build_fail"}

InitSeq ==
    /\ inbound = [r \in Slots |-> PlainRequest]
    /\ lc_in = <<>>
    /\ InitConfig(MaxFleet)
    /\ up \in [FleetIdx -> Behaviours]
    /\ \A i \in FleetIdx : i >= n => up[i] = "ok"
    /\ InitFleet
    /\ FreshInstances

NextSeq ==
    \/ \E r \in Slots : StartAlone(r, SeqDispatches)
    \/ \E r \in Slots : Select(r)
    \/ \E r \in Slots : ForwardBegin(r)
    \/ \E r \in Slots : Complete(r)
    \/ \E r \in Slots : Forget(r, SeqDispatches)

SpecSeq == InitSeq /\ [][NextSeq]_vars

\* ---- SpecRR: the rotation scenario: round_robin, a stable fleet whose upstreams all
\* answer 200, dispatches issued one after another
InitRR ==
    /\ inbound = [r \in Slots |-> PlainRequest]
    /\ lc_in = <<>>
    /\ strategy = "round_robin"
    /\ n \in 1..MaxFleet
    /\ max_retries \in RetriesFor(n)
    /\ up = [i \in FleetIdx |-> "ok"]
    /\ InitFleet
    /\ FreshInstances

NextRR ==
    \/ \E r \in Slots : StartAlone(r, RRDispatches)
    \/ \E r \in Slots : Select(r)
    \/ \E r \in Slots : ForwardBegin(r)
    \/ \E r \in Slots : Complete(r)
    \/ \E r \in Slots : Forget(r, RRDispatches)

SpecRR == InitRR /\ [][NextRR]_vars

\* ---- SpecHealth: the prober and the clock beside one dispatch, which walks the alive
\* instances of its snapshot (every forward fails with a transport error)
InitHealth ==
    /\ inbound = [r \in Slots |-> PlainRequest]
    /\ lc_in = <<>>
    /\ strategy = "least_connections"
    /\ max_retries = Unset
    /\ n \in 1..HealthFleet
    /\ up = [i \in FleetIdx |-> "transport"]
    /\ InitFleet
    /\ FreshInstances

NextHealth ==
    \/ SweepBegin
    \/ Probe
    \/ Tick
    \/ \E r \in Slots : StartAlone(r, 1)
    \/ \E r \in Slots : Select(r)
    \/ \E r \in Slots : ForwardBegin(r)
    \/ \E r \in Slots : Complete(r)

SpecHealth == InitHealth /\ [][NextHealth]_vars

\* ---- SpecPair: the two frontends at once, every instance tried in turn
\* (max_retries unset), every attempt is sent and may end in any way, and a request may
\* be cancelled
InitPair ==
    /\ inbound = [r \in Slots |-> PlainRequest]
    /\ lc_in = <<>>
    /\ strategy \in Strategies
    /\ n \in 1..ConcFleet
    /\ max_retries = Unset
    /\ up = [i \in FleetIdx |-> "built"]
    /\ InitFleet
    /\ AfterSweeps

NextPair ==
    \/ \E r \in Slots : Start(r, ConcDispatches)
    \/ \E r \in Slots : Select(r)
    \/ \E r \in Slots : ForwardBegin(r)
    \/ \E r \in Slots : Complete(r)
    \/ \E r \in Slots : Cancel(r)

SpecPair == InitPair /\ [][NextPair]_vars

\* ---- SpecRelay: dispatches issued one after another, of any of the Requests; an
\* upstream answers 200, answers 5xx, or is silent
Requests ==
    {[method |-> "POST", path_and_query |-> "/notes?limit=1",
      headers |-> <<"X-Trace: abc">>, body |-> <<123, 34, 107, 34, 58, 49, 125>>],
     [method |-> "GET", path_and_query |-> "", headers |-> <<>>, body |-> <<>>]}

Replies == {"ok", "s5xx", "silent"}

InitRelay ==
    /\ inbound \in [Slots -> Requests]
    /\ lc_in = <<>>
    /\ strategy \in Strategies
    /\ n \in 1..RelayFleet
    /\ max_retries \in {Unset, 0}
    /\ up \in [FleetIdx -> Replies]
    /\ \A i \in FleetIdx : i >= n => up[i] = "ok"
    /\ InitFleet
    /\ FreshInstances

NextRelay ==
    \/ \E r \in Slots : StartAlone(r, RelayDispatches)
    \/ \E r \in Slots : Select(r)
    \/ \E r \in Slots : ForwardBegin(r)
    \/ \E r \in Slots : Complete(r)
    \/ \E r \in Slots : Forget(r, RelayDispatches)

SpecRelay == InitRelay /\ [][NextRelay]_vars

\* ---- SpecProber: the prober and the clock alone
NextProber ==
    \/ SweepBegin
    \/ Probe
    \/ Tick

SpecProber == InitHealth /\ [][NextProber]_vars

\* ---- SpecRoot: the prober, the clock and the root endpoint
NextRoot ==
    \/ SweepBegin
    \/ Probe
    \/ Tick
    \/ Root
    \/ RootDone

SpecRoot == InitHealth /\ [][NextRoot]_vars

\* ---- SpecRestore: the prober and the clock beside dispatches issued one after
\* another; every upstream answers 200
InitRestore ==
    /\ inbound = [r \in Slots |-> PlainRequest]
    /\ lc_in = <<>>
    /\ strategy = "least_connections"
    /\ max_retries = Unset
    /\ n \in 1..RestoreFleet
    /\ up = [i \in FleetIdx |-> "ok"]
    /\ InitFleet
    /\ FreshInstances

\* A request arrives while no other request is being served
StartNext(r, quota) ==
    /\ \A q \in Slots \ {r} : req[q].pc \in {"idle", "done"}
    /\ Start(r, quota)

NextRestore ==
    \/ SweepBegin
    \/ Probe
    \/ Tick
    \/ \E r \in Slots : StartNext(r, RestoreDispatches)
    \/ \E r \in Slots : Select(r)
    \/ \E r \in Slots : ForwardBegin(r)
    \/ \E r \in Slots : Complete(r)

SpecRestore == InitRestore /\ [][NextRestore]_vars

\* ---- SpecReaders: the prober beside the two readers of the fleet, a dispatch and the
\* root endpoint, one reader at a time; the upstreams all answer 200 or all fail with a
\* transport error, so that a dispatch walks its snapshot. The clock stands
\* still: the fleet starts as sweeps and time leave it, an instance alive and just probed
\* with success, or alive and last probed with success more than Limit ticks ago (the
\* next failed probe demotes it), or dead
AgedFleet ==
    /\ is_alive \in [FleetIdx -> BOOLEAN]
    /\ last_healthy \in [FleetIdx -> {0, Limit + 1}]
    /\ \A i \in FleetIdx : (i >= n => is_alive[i] /\ last_healthy[i] = 0)
                            /\ (~is_alive[i] => last_healthy[i] = Limit + 1)
    /\ probe_hist = [i \in FleetIdx |-> IF is_alive[i] THEN Unset ELSE 0]

InitReaders ==
    /\ inbound = [r \in Slots |-> PlainRequest]
    /\ lc_in = <<>>
    /\ strategy = "least_connections"
    /\ max_retries = Unset
    /\ n \in 1..ReadersFleet
    /\ \E b \in {"ok", "transport"} : up = [i \in FleetIdx |-> b]
    /\ InitFleet
    /\ AgedFleet

\* GET / arrives while no dispatch is being served
RootAlone ==
    /\ \A r \in Slots : req[r].pc \in {"idle", "done"}
    /\ Root

\* A request arrives while no other request and no GET / is being served
StartQuiet(r, quota) ==
    /\ root_resp = NoResponse
    /\ StartNext(r, quota)

NextReaders ==
    \/ SweepBegin
    \/ Probe
    \/ \E r \in Slots : StartQuiet(r, ReadersDispatches)
    \/ \E r \in Slots : Select(r)
    \/ \E r \in Slots : ForwardBegin(r)
    \/ \E r \in Slots : Complete(r)
    \/ RootAlone
    \/ RootDone

SpecReaders == InitReaders /\ [][NextReaders]_vars

\* ---- SpecProberFair: the prober and the clock alone, where the loop of
\* health_check_all keeps running (interval.tick() fires again, every probe ends, by an
\* answer or by the client's timeout) and the clock keeps advancing
SpecProberFair ==
    /\ InitHealth
    /\ [][NextProber]_vars
    /\ WF_vars(SweepBegin)
    /\ WF_vars(Probe)
    /\ WF_vars(Tick)

\* ---- SpecRotation: round_robin under the concurrent requests of the two frontends; a
\* stable fleet whose upstreams all answer 200; a request that is gone leaves its
\* forwards in the tally
StartFresh(r, quota) ==
    /\ req[r].pc = "idle"
    /\ Start(r, quota)

\* The number of forwards to instance i in a request's history
RECURSIVE ForwardsTo(_, _)
ForwardsTo(i, forwarded) ==
    IF forwarded = <<>> THEN 0
    ELSE (IF Head(forwarded) = i THEN 1 ELSE 0) + ForwardsTo(i, Tail(forwarded))

\* The handler has returned and its response is written: the request is gone
ForgetTallied(r) ==
    /\ req[r].pc = "done"
    /\ tally' = [i \in FleetIdx |-> tally[i] + ForwardsTo(i, req[r].forwarded)]
    /\ req' = [req EXCEPT ![r] = IdleReq]
    /\ UNCHANGED <<cfgVars, con_count, is_alive, last_healthy, idx_to_pick, sweep,
                   started, probe_hist, lcVars, root_resp, probed>>

NextRotation ==
    \/ \E r \in Slots : StartFresh(r, RRDispatches)
    \/ \E r \in Slots : Select(r)
    \/ \E r \in Slots : ForwardBegin(r)
    \/ \E r \in Slots : Complete(r)
    \/ \E r \in Slots : ForgetTallied(r)

SpecRotation == InitRR /\ [][NextRotation]_vars

\* ---- SpecLive: one dispatch, on either frontend, beside the sweeps of the prober,
\* where every step that is due is taken: a sweep that began goes on to its end (every
\* probe ends), the strategy mutex is granted, every upstream attempt ends, and a
\* reader waiting for the fleet's lock gets it when a sweep ends (tokio's RwLock is
\* fair), however often sweeps follow one another
InitLive ==
    /\ inbound = [r \in Slots |-> PlainRequest]
    /\ lc_in = <<>>
    /\ InitConfig(LiveFleet)
    /\ up = [i \in FleetIdx |-> "any"]
    /\ InitFleet
    /\ FreshInstances

NextLive ==
    \/ SweepBegin
    \/ Probe
    \/ \E r \in Slots : StartAlone(r, 1)
    \/ \E r \in Slots : Select(r)
    \/ \E r \in Slots : ForwardBegin(r)
    \/ \E r \in Slots : Complete(r)

SpecLive ==
    /\ InitLive
    /\ [][NextLive]_vars
    /\ WF_vars(Probe)
    /\ \A r \in Slots :
          /\ WF_vars(Select(r))
          /\ SF_vars(ForwardBegin(r))
          /\ SF_vars(Complete(r))

\* ---- SpecLC: direct calls of LeastConnections::select_instance
SnapshotValues == [con_count : 0..MaxConn \cup {U32Max}, is_alive : BOOLEAN]

InitLC ==
    /\ inbound = [r \in Slots |-> PlainRequest]
    /\ strategy = "least_connections"
    /\ max_retries = Unset
    /\ n = 1
    /\ up = [i \in FleetIdx |-> "ok"]
    /\ InitFleet
    /\ FreshInstances
    /\ \E len \in 1..MaxSnapshots : lc_in \in [1..len -> SnapshotValues]

CallLeastConnections ==
    /\ lc_in # <<>>
    /\ lc_out = Unset
    /\ lc_out' = LeastConnectionsSelect(lc_in)
    /\ UNCHANGED <<cfgVars, con_count, is_alive, last_healthy, idx_to_pick, sweep, req,
                   started, probe_hist, lc_in, root_resp, probed, tally>>

NextLC == CallLeastConnections

SpecLC == InitLC /\ [][NextLC]_vars

\* ------------------------------------------------------------------ properties
Quiet == \A r \in Slots : req[r].pc \in {"idle", "done"}

NoDuplicates(seq) == \A a, b \in 1..Len(seq) : a # b => seq[a] # seq[b]

Unavailable == [status |-> 503, body |-> "Service unavailable (no alive servers)"]

\* C1: once every dispatch has returned, every instance's con_count is zero
InFlightConservation ==
    Quiet => \A i \in FleetIdx : con_count[i] = 0

\* C2: with max_retries = k and N instances in the alive snapshot, a request makes at
\* most min(k + 1, N) forward attempts
FailoverTermination ==
    \A r \in Slots :
        max_retries # Unset =>
            Len(req[r].forwarded) <= Min(max_retries + 1, req[r].n_alive)

\* C2 witness: a request that retried and used up its whole budget of k + 1 attempts
FailoverBudgetUsed ==
    \E r \in Slots :
        /\ max_retries # Unset
        /\ req[r].pc = "done"
        /\ Len(req[r].forwarded) >= 2
        /\ Len(req[r].forwarded) = max_retries + 1
        /\ Len(req[r].forwarded) < req[r].n_alive

\* C3: within one request no fleet index is forwarded to twice
NoDoubleTry ==
    \A r \in Slots : NoDuplicates(req[r].forwarded)

\* C3 witness: a request that forwarded to three different instances
ThreeInstancesTried ==
    \E r \in Slots : Len(req[r].forwarded) >= 3 /\ NoDuplicates(req[r].forwarded)

\* C4: if the first upstream tried answers 5xx, a retry is permitted and every other
\* upstream answers 200, the request is forwarded again and the client sees 200
RetryAfter5xx ==
    \A r \in Slots :
        ( /\ req[r].pc = "done"
          /\ Len(req[r].forwarded) >= 1
          /\ up[req[r].forwarded[1]] = "s5xx"
          /\ max_retries = Unset \/ max_retries >= 1
          /\ req[r].n_alive >= 2
          /\ \A j \in 0..(n - 1) : j # req[r].forwarded[1] => up[j] = "ok" )
        => /\ Len(req[r].forwarded) >= 2
           /\ req[r].resp = [status |-> 200, body |-> "upstream"]

\* C5: if the first upstream tried answers 4xx, the request makes no further attempt
\* and the client sees that upstream's 4xx response
Relay4xx ==
    \A r \in Slots :
        (Len(req[r].forwarded) >= 1 /\ up[req[r].forwarded[1]] = "c4xx")
        => /\ Len(req[r].forwarded) = 1
           /\ req[r].pc \in {"sending", "done"}
           /\ req[r].pc = "done" => req[r].resp = [status |-> 404, body |-> "upstream"]

\* C5 witness: a 4xx relayed although a retry was permitted and another instance alive
Relayed4xxDespiteBudget ==
    \E r \in Slots :
        /\ req[r].pc = "done"
        /\ Len(req[r].forwarded) = 1
        /\ up[req[r].forwarded[1]] = "c4xx"
        /\ req[r].resp.status = 404
        /\ req[r].n_alive >= 2
        /\ max_retries = Unset

\* C6: three upstreams A, B, C (0, 1, 2) all flagged alive, round_robin, max_retries = 2,
\* B fails with a transport error: a request whose first selection is B gets 200
MidRequestDeath ==
    \A r \in Slots :
        ( /\ n = 3 /\ strategy = "round_robin" /\ max_retries = 2
          /\ up[0] = "ok" /\ up[1] = "transport" /\ up[2] = "ok"
          /\ req[r].pc = "done"
          /\ Len(req[r].forwarded) >= 1
          /\ req[r].forwarded[1] = 1 )
        => req[r].resp.status = 200

\* C7: a dispatch that starts when every instance has failed its probes for longer
\* than health_check_time_limit makes no forward attempt and answers 503 with the
\* prescribed body
AllDead503 ==
    \A r \in Slots :
        req[r].all_failing =>
            /\ req[r].forwarded = <<>>
            /\ req[r].pc = "done" => req[r].resp = Unavailable

\* C8: an alive instance stays alive through a failed probe that comes at most
\* health_check_time_limit after its last successful probe, through every step that is
\* not a probe of it, and through a successful probe
ProbeStepOf(i) == sweep = i /\ sweep' # i
AliveHysteresis ==
    [][\A i \in FleetIdx :
          is_alive[i] =>
            /\ ( /\ ProbeStepOf(i)
                 /\ probe_hist'[i] # Unset
                 /\ last_healthy[i] # Unset
                 /\ last_healthy[i] <= Limit ) => is_alive'[i]
            /\ (ProbeStepOf(i) /\ probe_hist'[i] = Unset) => is_alive'[i]
            /\ ~ProbeStepOf(i) => is_alive'[i]]_vars

\* C8 witness: the last probe of an instance failed, at most Limit ticks after a
\* successful one, and the instance is alive
AliveAfterFailedProbe ==
    \E i \in FleetIdx :
        /\ i < n
        /\ is_alive[i]
        /\ probe_hist[i] # Unset
        /\ last_healthy[i] # Unset
        /\ last_healthy[i] <= Limit

\* C9: round_robin, a stable alive set of n instances, every request answered 200 by the
\* first upstream tried: the i-th dispatch (from 0) is forwarded to instance i mod n
RoundRobinRotation ==
    \A r \in Slots :
        Len(req[r].forwarded) >= 1 => req[r].forwarded[1] = (started - 1) % n

\* C9 witness: the last dispatch of the scenario, on the largest fleet, was answered
RotationCompleted ==
    \E r \in Slots :
        /\ started = RRDispatches
        /\ n = MaxFleet
        /\ req[r].pc = "done"
        /\ req[r].forwarded = <<(RRDispatches - 1) % MaxFleet>>
        /\ req[r].resp.status = 200

\* C10: on a non-empty list of alive snapshots LeastConnections returns the smallest
\* index that holds the minimum con_count (0 when all counts are equal)
LeastConnectionsArgmin ==
    (lc_out # Unset /\ \A k \in 1..Len(lc_in) : lc_in[k].is_alive) =>
        /\ lc_out + 1 \in 1..Len(lc_in)
        /\ \A k \in 1..Len(lc_in) : lc_in[lc_out + 1].con_count <= lc_in[k].con_count
        /\ \A k \in 1..lc_out : lc_in[k].con_count > lc_in[lc_out + 1].con_count

\* C10 witness: the counts [3, 1, 2] give index 1
LeastConnectionsExample ==
    /\ Len(lc_in) = 3
    /\ \A k \in 1..3 : lc_in[k].is_alive
    /\ <<lc_in[1].con_count, lc_in[2].con_count, lc_in[3].con_count>> = <<3, 1, 2>>
    /\ lc_out = 1

LastOf(seq) == seq[Len(seq)]

CancelledWhileSending(r) == req[r].pc = "sending" /\ req'[r].pc = "idle"

Outstanding(i) ==
    Cardinality({r \in Slots : req[r].pc = "sending" /\ LastOf(req[r].forwarded) = i})

CounterNonNegative ==
    \A i \in FleetIdx :
        /\ con_count[i] >= 0
        /\ con_count[i] # U32Max
        /\ con_count[i] >= Outstanding(i)

\* C14 witness: one attempt on an instance has ended and was counted down while the
\* other frontend's attempt on the same instance is outstanding
CountedDownBesideOutstanding ==
    \E i \in FleetIdx : \E r, q \in Slots :
        /\ r # q
        /\ req[r].pc = "done" /\ req[r].sent # <<>> /\ LastOf(req[r].forwarded) = i
        /\ req[q].pc = "sending" /\ LastOf(req[q].forwarded) = i
        /\ con_count[i] = 1

RequestRelay ==
    \A r \in Slots :
        /\ Len(req[r].sent) = Len(req[r].forwarded)
        /\ \A k \in 1..Len(req[r].sent) :
            /\ req[r].sent[k].instance = req[r].forwarded[k]
            /\ req[r].sent[k].request.method = inbound[r].method
            /\ req[r].sent[k].request.headers = inbound[r].headers
            /\ req[r].sent[k].request.body = inbound[r].body
            /\ req[r].sent[k].request.url =
                    InstanceUrl(r, req[r].forwarded[k]) \o inbound[r].path_and_query

\* C17 witness: the retry of a POST on the second instance
PostRetried ==
    \E r \in Slots :
        /\ Len(req[r].sent) >= 2
        /\ req[r].sent[2].request =
              [method |-> "POST", url |-> "http://10.0.0.2:8080/notes?limit=1",
               headers |-> <<"X-Trace: abc">>, body |-> <<123, 34, 107, 34, 58, 49, 125>>]

\* C18: no step of a dispatch changes is_alive or last_healthy, and every request finds
\* in its snapshot every instance flagged alive, those that failed in earlier requests
\* included
AliveCount == Cardinality({i \in 0..(n - 1) : is_alive[i]})

DispatchKeepsLiveness ==
    /\ [](\A r \in Slots : req[r].pc # "idle" => req[r].n_alive = AliveCount)
    /\ [][is_alive' = is_alive /\ last_healthy' = last_healthy]_vars

\* C18 witness: the only instance answers every forward with a 5xx; the second request,
\* issued after the first one failed on it, has forwarded to it
FailedInstanceTriedAgain ==
    \E r \in Slots :
        /\ n = 1
        /\ up[0] = "s5xx"
        /\ started = 2
        /\ req[r].forwarded = <<0>>
        /\ is_alive[0]

NoLockAcrossForward ==
    \A r, q \in Slots :
        (r # q /\ req[r].pc = "sending" /\ sweep = Unset) =>
            /\ (req[q].pc \in {"idle", "done"} /\ started < ConcDispatches)
                    => ENABLED Start(q, ConcDispatches)
            /\ req[q].pc = "select" => ENABLED Select(q)
            /\ req[q].pc = "forward" => ENABLED ForwardBegin(q)

\* C20 witness: both frontends await an upstream response, from different instances
TwoForwardsOutstanding ==
    \E r, q \in Slots :
        /\ req[r].pc = "sending" /\ req[q].pc = "sending"
        /\ LastOf(req[r].forwarded) # LastOf(req[q].forwarded)

\* C21: the step in which a request takes its snapshot and finds no alive instance ends
\* the request with 503: no selection (the cursor of the strategy is untouched), no
\* forward attempt, no con_count changed
SnapshotTaken(r) == started' = started + 1 /\ req'[r] # req[r]

NoAliveUpstream ==
    [][\A r \in Slots :
          (SnapshotTaken(r) /\ AliveSnapshots(n, is_alive, con_count) = <<>>) =>
              /\ req'[r].pc = "done"
              /\ req'[r].resp = Unavailable
              /\ req'[r].forwarded = <<>> /\ req'[r].sent = <<>>
              /\ idx_to_pick' = idx_to_pick
              /\ con_count' = con_count]_vars

\* C21 witness: a fleet of two dead instances, a request answered 503 without a forward
NoneAliveAnswered ==
    \E r \in Slots :
        /\ n = 2 /\ ~is_alive[0] /\ ~is_alive[1]
        /\ req[r].pc = "done"
        /\ req[r].n_alive = 0
        /\ req[r].forwarded = <<>>
        /\ req[r].resp.status = 503

\* C22: the response of the root endpoint reports the number of instances whose is_alive
\* is true when it is served and the fleet size, with status 200 when that number is
\* positive and 503 when it is zero
RootReportsFleet ==
    [][(root_resp = NoResponse /\ root_resp' # NoResponse) =>
          /\ root_resp'.alive_instances = AliveCount
          /\ root_resp'.total_instances = n
          /\ root_resp'.status = 200 <=> AliveCount > 0
          /\ root_resp'.status = 503 <=> AliveCount = 0]_vars

\* C22 witness: a fleet of two with one dead instance is reported as 1 of 2, status 200
RootReportsOneOfTwo ==
    /\ n = 2
    /\ AliveCount = 1
    /\ root_resp = [status |-> 200, health |-> "healthy",
                    alive_instances |-> 1, total_instances |-> 2]

\* C23: every forward attempt of a request of the gRPC frontend, first or retry, goes to
\* the grpc_port of the instance it targets, and every attempt of a request of the REST
\* frontend to its rest_port
PortOf(r) == IF r = "GRPC" THEN "50051" ELSE "8080"

PortByFrontend ==
    \A r \in Slots : \A k \in 1..Len(req[r].sent) :
        req[r].sent[k].request.url =
            ((("http://10.0.0." \o ToString(req[r].sent[k].instance + 1)) \o ":")
                \o PortOf(r)) \o inbound[r].path_and_query

\* C23 witness: a gRPC request whose first attempt went to instance 0 on port 50051 and
\* whose retry went to instance 1 on port 50051
GrpcRetriedOnGrpcPort ==
    /\ Len(req["GRPC"].sent) = 2
    /\ inbound["GRPC"].path_and_query = ""
    /\ req["GRPC"].sent[1].request.url = "http://10.0.0.1:50051"
    /\ req["GRPC"].sent[2].request.url = "http://10.0.0.2:50051"

\* C24: a probe that ends in a transport error on an instance that never passed a probe
\* (last_healthy unset) leaves the instance dead
NeverHealthyDemoted ==
    [][\A i \in FleetIdx :
          (ProbeStepOf(i) /\ probed' = "err" /\ last_healthy[i] = Unset)
              => ~is_alive'[i]]_vars

\* C25: a probe answered with a non-2xx status on an instance that passed a probe before
\* acts like a transport error: the instance is dead after it if more than
\* health_check_time_limit has passed since last_healthy, is_alive is unchanged otherwise,
\* and last_healthy is unchanged
Non2xxLikeTransportError ==
    [][\A i \in FleetIdx :
          (ProbeStepOf(i) /\ probed' = "non2xx" /\ last_healthy[i] # Unset) =>
              /\ last_healthy[i] > Limit => ~is_alive'[i]
              /\ last_healthy[i] <= Limit => is_alive'[i] = is_alive[i]
              /\ last_healthy'[i] = last_healthy[i]]_vars

\* C26: a probe answered 2xx leaves the instance alive with last_healthy at the current
\* instant, whatever it was before; is_alive goes from false to true in no other step;
\* and the snapshot a request takes holds exactly the instances alive at that moment,
\* so a restored instance is in the snapshot of every request that starts from then on
InSnapshot(i, alive_snapshots) ==
    \E k \in 1..Len(alive_snapshots) : alive_snapshots[k].idx = i

RestoredByOneProbe ==
    [][\A i \in 0..(n - 1) :
          /\ (ProbeStepOf(i) /\ probed' = "ok") => (is_alive'[i] /\ last_healthy'[i] = 0)
          /\ (~is_alive[i] /\ is_alive'[i]) => (ProbeStepOf(i) /\ probed' = "ok")
          /\ \A r \in Slots :
                (SnapshotTaken(r) /\ req'[r].pc # "done") =>
                    (is_alive[i] <=> InSnapshot(i, req'[r].alive_snapshots))]_vars

\* C26 witness: a request found the only instance dead and was answered 503; the
\* instance then passed a probe, and the next request has it in its snapshot
RestoredInstanceInSnapshot ==
    \E r, q \in Slots :
        /\ n = 1
        /\ req[r].pc = "done" /\ req[r].n_alive = 0 /\ req[r].resp.status = 503
        /\ probed = "ok"
        /\ req[q].pc = "select" /\ InSnapshot(0, req[q].alive_snapshots)

\* C27: every instance starts alive, and is_alive goes from true to false only in a step
\* that is a failed probe of that instance made when its last_healthy was unset or more
\* than health_check_time_limit old: no instance is dead without such a probe before
FailedProbeOf(i) == ProbeStepOf(i) /\ probed' \in {"err", "non2xx"}

DeadOnlyAfterFailedProbe ==
    /\ \A i \in FleetIdx : is_alive[i]
    /\ [][\A i \in FleetIdx :
            (is_alive[i] /\ ~is_alive'[i]) =>
                /\ FailedProbeOf(i)
                /\ last_healthy[i] = Unset \/ last_healthy[i] > Limit]_vars

\* C27 witness: the second instance of a fleet of two is dead, its last probe failed
DeadSecondInstance ==
    /\ n = 2
    /\ is_alive[0] /\ ~is_alive[1]
    /\ probe_hist[1] # Unset
    /\ sweep = Unset /\ probed = "err"

\* C28: an instance that passed a probe and from some point on fails every probe with a
\* transport error is eventually dead for good (it stays dead until a probe succeeds);
\* and no instance is demoted while its last_healthy is at most
\* health_check_time_limit old
ProbedOtherwise(i) == ProbeStepOf(i) /\ probed' # "err"

SustainedFailureDemotes ==
    /\ \A i \in FleetIdx :
          \/ [](last_healthy[i] = Unset)
          \/ []<><<ProbedOtherwise(i)>>_vars
          \/ <>[](~is_alive[i])
    /\ [][\A i \in FleetIdx :
            /\ (is_alive[i] /\ ~is_alive'[i]) =>
                    (last_healthy[i] # Unset /\ last_healthy[i] > Limit)
            /\ (~is_alive[i] /\ is_alive'[i]) => (ProbeStepOf(i) /\ probed' = "ok")]_vars

\* C28 witness: the only instance passed a probe, has failed its probes for longer than
\* the limit, the last one with a transport error, and is dead
DeadAfterSustainedFailure ==
    /\ n = 1
    /\ ~is_alive[0]
    /\ last_healthy[0] # Unset
    /\ LongFailing(0)
    /\ probed = "err"

\* C29: whenever a request is about to call the strategy (a pass of its loop with a
\* non-empty list of candidates), the index the strategy returns is within that list,
\* whatever calls were made before and however much shorter the list has become
AboutToSelect(r) ==
    /\ req[r].pc = "select"
    /\ req[r].attempt <= req[r].max_retries
    /\ Len(req[r].alive_snapshots) > 0

StrategyIndexInRange ==
    \A r \in Slots :
        AboutToSelect(r) =>
            \A pick \in StrategySelect(strategy, idx_to_pick, SnapshotsOf(req[r].alive_snapshots)) :
                pick.result \in 0..(Len(req[r].alive_snapshots) - 1)

\* C30: the pass of the loop in which the strategy returns an index outside the list of
\* remaining candidates ends the request with 500 and without a forward attempt
InvalidIndexIs500 ==
    [][\A r \in Slots :
          ( /\ AboutToSelect(r)
            /\ req'[r] # req[r]
            /\ \A pick \in StrategySelect(strategy, idx_to_pick,
                                           SnapshotsOf(req[r].alive_snapshots)) :
                    pick.result >= Len(req[r].alive_snapshots) )
          => /\ req'[r].pc = "done"
             /\ req'[r].forwarded = req[r].forwarded
             /\ req'[r].resp.status = 500]_vars

\* C31: a request whose first attempt fails inside the balancer (the outbound client
\* cannot be built) makes no further attempt and is answered 500
InternalFailureTerminal ==
    \A r \in Slots :
        (Len(req[r].forwarded) >= 1 /\ up[req[r].forwarded[1]] = "build_fail")
        => /\ Len(req[r].forwarded) = 1
           /\ req[r].pc = "done" => req[r].resp.status = 500

\* C32: round_robin, a stable alive set of n instances, concurrent requests that all
\* succeed on their first attempt: the m-th selection overall (from 0) picks position
\* m mod n, and at any time the numbers of requests dispatched to two instances differ
\* by at most 1
Selections == started - Cardinality({r \in Slots : req[r].pc = "select"})

SelectedBy(r) ==
    CASE req[r].pc = "forward" -> {req[r].actual_idx}
      [] req[r].pc \in {"sending", "done"} ->
            {req[r].forwarded[k] : k \in 1..Len(req[r].forwarded)}
      [] OTHER -> {}

Dispatched(i) == tally[i] + Cardinality({r \in Slots : i \in SelectedBy(r)})

ConcurrentRotation ==
    /\ [][\A r \in Slots :
            (req[r].pc = "select" /\ req'[r].pc = "forward") =>
                req'[r].actual_idx = Selections % n]_vars
    /\ [](\A i, j \in 0..(n - 1) : Dispatched(i) - Dispatched(j) <= 1)

\* C32 witness: three instances; one frontend's request was selected for instance 0 and
\* has not been forwarded yet, while the other frontend went on to its fourth request
RotationBesidePendingRequest ==
    \E r, q \in Slots :
        /\ n = 3
        /\ req[r].pc = "forward" /\ req[r].actual_idx = 0
        /\ req[q].pc = "sending"
        /\ started = 5
        /\ tally = (0 :> 1 @@ 1 :> 1 @@ 2 :> 1)

\* C33: the in-flight counters add up to at most the number of requests that are in a
\* forward attempt: a request counts for nothing while it selects and after it returned
RECURSIVE SumFrom(_, _)
SumFrom(i, counts) == IF i >= MaxFleet THEN 0 ELSE counts[i] + SumFrom(i + 1, counts)

InForwardAttempt == {r \in Slots : req[r].pc = "sending"}

LoadReleasedBeforeSelection ==
    SumFrom(0, con_count) <= Cardinality(InForwardAttempt)

\* C34: every request that was taken up returns: the handler ends with a response that
\* carries an upstream's status or a failure status
Statuses == {200, 404, 500, 502, 503, 504}

Written(i) ==
    \/ is_alive'[i] # is_alive[i]
    \/ last_healthy'[i] = 0 /\ last_healthy[i] # 0

SequentialProbing ==
    /\ [](sweep = Unset \/ sweep \in 0..(n - 1))
    /\ [][/\ \A i \in FleetIdx : Written(i) => (sweep # Unset /\ sweep = i)
          /\ (sweep = Unset /\ sweep' # Unset) => sweep' = 0
          /\ (sweep # Unset /\ sweep' # sweep) =>
                sweep' = (IF sweep + 1 < n THEN sweep + 1 ELSE Unset)]_vars

\* C35 witness: in a fleet of two, the probe of instance 0 has ended and demoted it, and
\* the probe of instance 1 is outstanding
SecondProbeOutstanding ==
    /\ n = 2
    /\ sweep = 1
    /\ ~is_alive[0] /\ is_alive[1]
    /\ probed = "err"

\* C36: a dispatch takes its snapshot, and the root endpoint its counts, while no sweep
\* is under way: what they read is the is_alive of every instance as the last sweep left
\* it, never the values of a sweep that has probed some instances and not the others
AliveNow == {i \in 0..(n - 1) : is_alive[i]}

RootAnswered == root_resp = NoResponse /\ root_resp' # NoResponse

SweepAtomicity ==
    [][/\ \A r \in Slots : SnapshotTaken(r) =>
             /\ sweep = Unset
             /\ req'[r].n_alive = Cardinality(AliveNow)
             /\ req'[r].n_alive > 0 =>
                   {req'[r].alive_snapshots[k].idx : k \in 1..req'[r].n_alive} = AliveNow
       /\ RootAnswered =>
             /\ sweep = Unset
             /\ root_resp' = RootResponse(Cardinality(AliveNow), n)]_vars

\* C36 witness: a sweep has demoted instance 0 and has yet to end the probe of instance
\* 1, while a request holds what it read before the sweep: both alive
ReadersBesidePartialSweep ==
    /\ n = 2
    /\ sweep = 1
    /\ ~is_alive[0]
    /\ \E r \in Slots : req[r].pc \in {"select", "forward", "sending"} /\ req[r].n_alive = 2

\* C37: the candidates of a request are fixed when it takes its snapshot: the list holds
\* the instances alive at that moment, it only shrinks until the request returns, and
\* every forward goes to an instance of the list; so an instance dead at snapshot time or
\* restored later is never contacted, and an instance demoted later still is
Candidates(rec) == {rec.alive_snapshots[k].idx : k \in 1..Len(rec.alive_snapshots)}

InFlight(r) == req[r].pc \in {"select", "forward", "sending"}

Forwards(r) == Len(req'[r].forwarded) = Len(req[r].forwarded) + 1

CandidatesFixedAtSnapshot ==
    [][\A r \in Slots :
         /\ SnapshotTaken(r) => Candidates(req'[r]) = AliveNow
         /\ InFlight(r) => Candidates(req'[r]) \subseteq Candidates(req[r])
         /\ Forwards(r) =>
               req'[r].forwarded[Len(req'[r].forwarded)] \in Candidates(req[r])]_vars

\* C37 witness: a request that found both instances alive was refused by instance 0 and
\* is sending to instance 1, which the prober has marked dead in the meantime
SendingToDemotedInstance ==
    /\ n = 2
    /\ ~is_alive[1]
    /\ \E r \in Slots : /\ req[r].pc = "sending"
                        /\ req[r].n_alive = 2
                        /\ req[r].forwarded = <<0, 1>>

\* C38: whenever a request is about to select, no remaining candidate is in its tried
\* set: whatever position the strategy returns, the pass does not take the branch that
\* removes an already-tried selection and goes on without a forward
SkipsTried(r, sel) == ActualIdx(req[r].alive_snapshots, sel) \in req[r].tried_indices

NoTriedCandidate ==
    \A r \in Slots :
        req[r].pc = "select" =>
            /\ Candidates(req[r]) \cap req[r].tried_indices = {}
            /\ \A sel \in 0..(Len(req[r].alive_snapshots) - 1) : ~SkipsTried(r, sel)

\* C38 witness: a request is about to select again, one instance tried and removed, two
\* candidates left
SelectingAfterFailure ==
    \E r \in Slots : /\ req[r].pc = "select"
                     /\ req[r].tried_indices # {}
                     /\ Len(req[r].alive_snapshots) = 2

====
